---- MODULE Spec2Model ----
(***************************************************************************)
(* Model of src/preprocessing.py: the cleaning functions for the          *)
(* demographics tables and the pipeline clean_demographic_data that       *)
(* chains them.                                                            *)
(*                                                                         *)
(* A DataFrame is a record [columns, dtypes, rows]: the ordered column     *)
(* names, the dtype of each column, and the rows in order, each row with   *)
(* its index label and its cells.  DataFrames live in a heap (a sequence   *)
(* of tables, a reference is a position in it), so that copy(), in-place   *)
(* edits and newly allocated results are told apart: reference 1 is the    *)
(* caller's table.                                                         *)
(*                                                                         *)
(* Cell values are integers: the integer codes of the data, NaN for the    *)
(* missing marker, and the members of Categories for the strings of an     *)
(* object column (CategoryText gives the string).                          *)
(***************************************************************************)
EXTENDS Integers, Sequences, FiniteSets, TLC

VARIABLES input, heap, pc, op, args, out, dropped_cols, outcome, frame,
          metadata

vars == <<input, heap, pc, op, args, out, dropped_cols, outcome, frame,
          metadata>>

(***************************************************************************)
(* Bounds and input domains                                                *)
(***************************************************************************)
MaxRows == 2

NaN == -999

ColPool == <<"A", "B">>

PoolDtype == [A |-> "number", B |-> "object"]

Codes == {-1, 0, 1, 2}

Categories == {100, 101}

CategoryText(v) == IF v = 100 THEN "a" ELSE "b"

None == <<>>

Some(x) == <<x>>

IsNone(o) == Len(o) = 0

Truthy(o) == Len(o) = 1 /\ Len(o[1]) > 0

SeqSet(s) == {s[i] : i \in DOMAIN s}

ColumnLists ==
  {SelectSeq(ColPool, LAMBDA c : c \in S) : S \in SUBSET SeqSet(ColPool)}

CellValues(c) ==
  IF PoolDtype[c] = "object" THEN {NaN} \cup Categories ELSE {NaN} \cup Codes

RowsOver(cols) ==
  {f \in [SeqSet(cols) -> {NaN} \cup Codes \cup Categories] :
     \A c \in SeqSet(cols) : f[c] \in CellValues(c)}

TablesOver(cols, n) ==
  {[columns |-> cols,
    dtypes |-> [c \in SeqSet(cols) |-> PoolDtype[c]],
    rows |-> [i \in 1..n |-> [index |-> i - 1, cells |-> rs[i]]]] :
     rs \in [1..n -> RowsOver(cols)]}

Tables ==
  UNION {UNION {TablesOver(cols, n) : n \in 0..MaxRows} : cols \in ColumnLists}

\* thresholds are fractions <<numerator, denominator>>, denominator > 0
Thresholds == {<<-1, 2>>, <<0, 1>>, <<1, 2>>, <<1, 1>>, <<3, 2>>}

InUnitInterval(th) == 0 <= th[1] /\ th[1] <= th[2]

SentinelSets == {{-1}, {0, 2}}

MapKeys == {"ALL", "A", "Z"}

\* the key Z names no column of any table: one set of values is enough for it
MissingValueMaps ==
  {None} \cup
  UNION {{Some(m) : m \in {f \in [K -> SentinelSets] : "Z" \in K => f["Z"] = {-1}}} :
           K \in SUBSET MapKeys}

NameLists ==
  {None, Some(<<"A">>), Some(<<"B">>), Some(<<"Z">>), Some(<<"A", "A">>),
   Some(<<"Z", "A">>), Some(<<"A", "B">>)}

(***************************************************************************)
(* DataFrame primitives                                                    *)
(***************************************************************************)
Cols(t) == SeqSet(t.columns)

shape(t) == <<Len(t.rows), Len(t.columns)>>

Alloc(h, t) == [heap |-> Append(h, t), ref |-> Len(h) + 1]

copy_alias(h, r) == [heap |-> h, ref |-> r]

copy(h, r) == Alloc(h, h[r])

ReplaceIn(t, cols, values, new) ==
  [t EXCEPT !.rows =
     [i \in DOMAIN t.rows |->
        [t.rows[i] EXCEPT !.cells =
           [c \in Cols(t) |->
              IF c \in cols /\ t.rows[i].cells[c] \in values
              THEN new ELSE t.rows[i].cells[c]]]]]

DataFrame_replace(t, values) == ReplaceIn(t, Cols(t), values, NaN)

Series_replace_sentinel(t, col, values) == ReplaceIn(t, {col}, values, -1)

Series_replace(t, col, values) == ReplaceIn(t, {col}, values, NaN)

DataFrame_drop(t, names) ==
  LET keep == SelectSeq(t.columns, LAMBDA c : c \notin names)
  IN [columns |-> keep,
      dtypes |-> [c \in SeqSet(keep) |-> t.dtypes[c]],
      rows |-> [i \in DOMAIN t.rows |->
                  [index |-> t.rows[i].index,
                   cells |-> [c \in SeqSet(keep) |-> t.rows[i].cells[c]]]]]

\* a mean of booleans: the number of True and the number of entries; the
\* mean of no entry is NaN, and every comparison with NaN is False
isna_mean(t, c) ==
  [sum |-> Cardinality({i \in DOMAIN t.rows : t.rows[i].cells[c] = NaN}),
   count |-> Len(t.rows)]

isna_mean_axis1(t, row) ==
  [sum |-> Cardinality({c \in Cols(t) : row.cells[c] = NaN}),
   count |-> Len(t.columns)]

GT(f, th) == f.count > 0 /\ f.sum * th[2] > th[1] * f.count

LE(f, th) == f.count > 0 /\ f.sum * th[2] <= th[1] * f.count

GE(f, th) == f.count > 0 /\ f.sum * th[2] >= th[1] * f.count

LT(f, th) == f.count > 0 /\ f.sum * th[2] < th[1] * f.count

(***************************************************************************)
(* encode_missing_values                                                   *)
(***************************************************************************)
DefaultMissingValueMap == [k \in {"ALL"} |-> {-1, -2, -3, -9}]

mapped_column_unguarded(t, col) == TRUE

mapped_column_present(t, col) == col \in Cols(t)

RECURSIVE apply_column_specific(_, _, _, _)
apply_column_specific(h, ref, m, keys) ==
  IF keys = {} THEN [heap |-> h, outcome |-> "returned"]
  ELSE LET col == CHOOSE k \in keys : TRUE
       IN IF col = "ALL" \/ ~mapped_column_present(h[ref], col)
          THEN apply_column_specific(h, ref, m, keys \ {col})
          ELSE IF col \notin Cols(h[ref])
          THEN [heap |-> h, outcome |-> "KeyError"]
          ELSE apply_column_specific(
                 [h EXCEPT ![ref] = Series_replace(h[ref], col, m[col])],
                 ref, m, keys \ {col})

encode_missing_values_override(h, df, missing_value_map) ==
  LET c == copy(h, df)
      m == IF IsNone(missing_value_map) THEN DefaultMissingValueMap
           ELSE missing_value_map[1]
      h1 == IF "ALL" \in DOMAIN m
            THEN [c.heap EXCEPT ![c.ref] =
                    ReplaceIn(c.heap[c.ref], Cols(c.heap[c.ref]) \ DOMAIN m, m["ALL"], NaN)]
            ELSE c.heap
      r == apply_column_specific(h1, c.ref, m, DOMAIN m)
  IN [heap |-> r.heap, outcome |-> r.outcome,
      out |-> IF r.outcome = "returned" THEN <<c.ref>> ELSE <<>>,
      dropped |-> <<>>]

encode_missing_values(h, df, missing_value_map) ==
  LET c == copy(h, df)
      m == IF IsNone(missing_value_map) THEN DefaultMissingValueMap
           ELSE missing_value_map[1]
      h1 == IF "ALL" \in DOMAIN m
            THEN [c.heap EXCEPT ![c.ref] = DataFrame_replace(c.heap[c.ref], m["ALL"])]
            ELSE c.heap
      r == apply_column_specific(h1, c.ref, m, DOMAIN m)
  IN [heap |-> r.heap, outcome |-> r.outcome,
      out |-> IF r.outcome = "returned" THEN <<c.ref>> ELSE <<>>,
      dropped |-> <<>>]

(***************************************************************************)
(* drop_high_missing_columns                                               *)
(***************************************************************************)
high_missing_columns_ge(t, threshold) ==
  SelectSeq(t.columns, LAMBDA c : GE(isna_mean(t, c), threshold))

high_missing_columns(t, threshold) ==
  SelectSeq(t.columns, LAMBDA c : GT(isna_mean(t, c), threshold))

drop_high_missing_columns_validating(h, df, threshold) ==
  IF ~InUnitInterval(threshold)
  THEN [heap |-> h, outcome |-> "ValidationError", out |-> <<>>, dropped |-> <<>>]
  ELSE LET d == high_missing_columns(h[df], threshold)
           a == Alloc(h, DataFrame_drop(h[df], SeqSet(d)))
       IN [heap |-> a.heap, outcome |-> "returned", out |-> <<a.ref>>, dropped |-> d]

drop_high_missing_columns(h, df, threshold) ==
  LET d == high_missing_columns(h[df], threshold)
      a == Alloc(h, DataFrame_drop(h[df], SeqSet(d)))
  IN [heap |-> a.heap, outcome |-> "returned", out |-> <<a.ref>>, dropped |-> d]

(***************************************************************************)
(* split_by_row_missingness                                                *)
(***************************************************************************)
\* df[mask]: the rows whose entry in the Boolean series mask is True
BoolIndex(t, mask) ==
  LET picked == SelectSeq([i \in DOMAIN t.rows |-> i], LAMBDA i : mask[i])
  IN [t EXCEPT !.rows = [k \in DOMAIN picked |-> t.rows[picked[k]]]]

main_mask_lt(t, threshold) ==
  [i \in DOMAIN t.rows |-> LT(isna_mean_axis1(t, t.rows[i]), threshold)]

main_mask(t, threshold) ==
  [i \in DOMAIN t.rows |-> LE(isna_mean_axis1(t, t.rows[i]), threshold)]

high_mask(t, threshold) ==
  [i \in DOMAIN t.rows |-> GT(isna_mean_axis1(t, t.rows[i]), threshold)]

split_by_row_missingness(h, df, threshold) ==
  LET t == h[df]
      a1 == Alloc(h, BoolIndex(t, main_mask(t, threshold)))
      main_df == copy(a1.heap, a1.ref)
      a2 == Alloc(main_df.heap, BoolIndex(t, high_mask(t, threshold)))
      high_missing_df == copy(a2.heap, a2.ref)
  IN [heap |-> high_missing_df.heap, outcome |-> "returned",
      out |-> <<main_df.ref, high_missing_df.ref>>, dropped |-> <<>>]

(***************************************************************************)
(* convert_categorical                                                     *)
(***************************************************************************)
binary_column_present(t, col) == col \in Cols(t)

binary_map(v) == IF v = 1 THEN 0 ELSE IF v = 2 THEN 1 ELSE NaN

Series_map_astype_float(t, col) ==
  [columns |-> t.columns,
   dtypes |-> [c \in Cols(t) |-> IF c = col THEN "number" ELSE t.dtypes[c]],
   rows |-> [i \in DOMAIN t.rows |->
               [index |-> t.rows[i].index,
                cells |-> [c \in Cols(t) |->
                             IF c = col THEN binary_map(t.rows[i].cells[c])
                             ELSE t.rows[i].cells[c]]]]]

RECURSIVE encode_binary_cols(_, _, _)
encode_binary_cols(h, ref, binary_cols) ==
  IF Len(binary_cols) = 0 THEN [heap |-> h, outcome |-> "returned"]
  ELSE LET col == Head(binary_cols)
       IN IF ~binary_column_present(h[ref], col)
          THEN encode_binary_cols(h, ref, Tail(binary_cols))
          ELSE IF col \notin Cols(h[ref])
          THEN [heap |-> h, outcome |-> "KeyError"]
          ELSE encode_binary_cols(
                 [h EXCEPT ![ref] = Series_map_astype_float(h[ref], col)],
                 ref, Tail(binary_cols))

RECURSIVE SortedSeq(_)
SortedSeq(S) ==
  IF S = {} THEN <<>>
  ELSE LET m == CHOOSE x \in S : \A y \in S : x <= y
       IN <<m>> \o SortedSeq(S \ {m})

\* the indicator columns of one source column: one per level, in sorted
\* order, without the first level (drop_first=True)
dummies_1d(t, c) ==
  LET levels == SortedSeq({t.rows[i].cells[c] : i \in DOMAIN t.rows} \ {NaN})
      kept == IF Len(levels) = 0 THEN <<>> ELSE Tail(levels)
  IN [k \in DOMAIN kept |->
        [name |-> c \o "_" \o CategoryText(kept[k]), src |-> c, level |-> kept[k]]]

RECURSIVE all_dummies(_, _)
all_dummies(t, columns) ==
  IF Len(columns) = 0 THEN <<>>
  ELSE dummies_1d(t, Head(columns)) \o all_dummies(t, Tail(columns))

\* The set of the outcomes the call can have: with no column at all there is
\* nothing to concatenate, and the library either raises ValueError or
\* returns the empty frame, depending on the build.
get_dummies(h, ref, columns) ==
  LET t == h[ref]
      rest == DataFrame_drop(t, SeqSet(columns))
      dm == all_dummies(t, columns)
      names == [k \in DOMAIN dm |-> dm[k].name]
      Dummy(n) == CHOOSE d \in SeqSet(dm) : d.name = n
      result ==
        [columns |-> rest.columns \o names,
         dtypes |-> [c \in Cols(rest) \cup SeqSet(names) |->
                       IF c \in Cols(rest) THEN rest.dtypes[c] ELSE "bool"],
         rows |-> [i \in DOMAIN t.rows |->
                     [index |-> t.rows[i].index,
                      cells |-> [c \in Cols(rest) \cup SeqSet(names) |->
                                   IF c \in Cols(rest) THEN t.rows[i].cells[c]
                                   ELSE IF t.rows[i].cells[Dummy(c).src] = Dummy(c).level
                                        THEN 1 ELSE 0]]]]
      a == Alloc(h, result)
  IN IF Len(t.columns) = 0
     THEN {[heap |-> h, outcome |-> "ValueError", out |-> <<>>],
           [heap |-> a.heap, outcome |-> "returned", out |-> <<a.ref>>]}
     ELSE {[heap |-> a.heap, outcome |-> "returned", out |-> <<a.ref>>]}

convert_categorical(h, df, binary_cols, drop_cols) ==
  LET df_encoded == copy(h, df)
      to_drop == IF Truthy(drop_cols)
                 THEN SelectSeq(drop_cols[1], LAMBDA c : c \in Cols(df_encoded.heap[df_encoded.ref]))
                 ELSE <<>>
      h1 == IF Truthy(drop_cols)
            THEN [df_encoded.heap EXCEPT ![df_encoded.ref] =
                    DataFrame_drop(df_encoded.heap[df_encoded.ref], SeqSet(to_drop))]
            ELSE df_encoded.heap
      b == IF Truthy(binary_cols)
           THEN encode_binary_cols(h1, df_encoded.ref, binary_cols[1])
           ELSE [heap |-> h1, outcome |-> "returned"]
      e == b.heap[df_encoded.ref]
      cat_cols == SelectSeq(e.columns, LAMBDA c : e.dtypes[c] \in {"object", "category"})
  IN IF b.outcome # "returned"
     THEN {[heap |-> b.heap, outcome |-> b.outcome, out |-> <<>>, dropped |-> <<>>]}
     ELSE {[heap |-> g.heap, outcome |-> g.outcome, out |-> g.out, dropped |-> <<>>] :
             g \in get_dummies(b.heap, df_encoded.ref, cat_cols)}

(***************************************************************************)
(* The calls of the four functions                                         *)
(***************************************************************************)
DefaultThreshold == <<3, 10>>

Args(m, ct, rt, b, d) ==
  [missing_value_map |-> m, col_missing_threshold |-> ct,
   row_missing_threshold |-> rt, binary_cols |-> b, drop_cols |-> d]

NoArgs == Args(None, DefaultThreshold, DefaultThreshold, None, None)

NoFrame == [df_mv |-> 0, df_cols |-> 0, main_df |-> 0, high_missing_df |-> 0]

NoMetadata == <<>>

Init ==
  /\ input \in Tables
  /\ heap = <<input>>
  /\ pc = "idle"
  /\ op = "none"
  /\ args = NoArgs
  /\ out = <<>>
  /\ dropped_cols = <<>>
  /\ outcome = "none"
  /\ frame = NoFrame
  /\ metadata = NoMetadata

Finish(name, a, r) ==
  /\ pc' = "done"
  /\ op' = name
  /\ args' = a
  /\ heap' = r.heap
  /\ out' = r.out
  /\ dropped_cols' = r.dropped
  /\ outcome' = r.outcome
  /\ UNCHANGED <<input, frame, metadata>>

Call_encode_missing_values ==
  /\ pc = "idle"
  /\ \E m \in MissingValueMaps :
       Finish("encode_missing_values",
              [NoArgs EXCEPT !.missing_value_map = m],
              encode_missing_values(heap, 1, m))

\* the caller encodes the table it got back once more, with the same map
Call_encode_missing_values_again ==
  /\ pc = "done"
  /\ op = "encode_missing_values"
  /\ outcome = "returned"
  /\ LET r == encode_missing_values(heap, out[1], args.missing_value_map)
     IN /\ pc' = "done"
        /\ op' = "encode_missing_values_again"
        /\ heap' = r.heap
        /\ out' = out \o r.out
        /\ outcome' = r.outcome
        /\ UNCHANGED <<input, args, dropped_cols, frame, metadata>>

Call_drop_high_missing_columns ==
  /\ pc = "idle"
  /\ \E th \in Thresholds :
       Finish("drop_high_missing_columns",
              [NoArgs EXCEPT !.col_missing_threshold = th],
              drop_high_missing_columns(heap, 1, th))

Call_split_by_row_missingness ==
  /\ pc = "idle"
  /\ \E th \in Thresholds :
       Finish("split_by_row_missingness",
              [NoArgs EXCEPT !.row_missing_threshold = th],
              split_by_row_missingness(heap, 1, th))

Call_convert_categorical ==
  /\ pc = "idle"
  /\ \E b \in NameLists, d \in NameLists :
       \E r \in convert_categorical(heap, 1, b, d) :
         Finish("convert_categorical",
                [NoArgs EXCEPT !.binary_cols = b, !.drop_cols = d], r)

(***************************************************************************)
(* clean_demographic_data, statement by statement                          *)
(***************************************************************************)
CleanThresholds ==
  {<<<<0, 1>>, <<0, 1>>>>, <<<<0, 1>>, <<1, 2>>>>, <<<<1, 2>>, <<0, 1>>>>,
   <<<<1, 2>>, <<1, 2>>>>, <<<<-1, 2>>, <<3, 2>>>>, <<<<3, 2>>, <<-1, 2>>>>}

CleanMaps ==
  {None,
   Some([k \in {"ALL", "A", "Z"} |->
           IF k = "ALL" THEN {-1} ELSE IF k = "A" THEN {0, 2} ELSE {-1}])}

CleanNames ==
  {<<None, None>>, <<Some(<<"Z", "A">>), Some(<<"Z">>)>>,
   <<Some(<<"A">>), Some(<<"B">>)>>, <<Some(<<"A">>), Some(<<"A", "B">>)>>}

CleanArgs ==
  {Args(m, th[1], th[2], n[1], n[2]) :
     m \in CleanMaps, th \in CleanThresholds, n \in CleanNames}

\* a statement of the pipeline raised: the call is over, the error propagates
Raise(r) ==
  /\ pc' = "done"
  /\ outcome' = r.outcome
  /\ heap' = r.heap
  /\ UNCHANGED <<input, op, args, out, dropped_cols, frame, metadata>>

CleanEncode ==
  /\ pc = "idle"
  /\ \E a \in CleanArgs :
       LET r == encode_missing_values(heap, 1, a.missing_value_map)
       IN /\ op' = "clean_demographic_data"
          /\ args' = a
          /\ metadata' = [original_shape |-> shape(heap[1])]
          /\ heap' = r.heap
          /\ IF r.outcome = "returned"
             THEN /\ pc' = "encoded"
                  /\ outcome' = "running"
                  /\ frame' = [frame EXCEPT !.df_mv = r.out[1]]
             ELSE /\ pc' = "done"
                  /\ outcome' = r.outcome
                  /\ frame' = frame
          /\ UNCHANGED <<input, out, dropped_cols>>

CleanDropColumns ==
  /\ pc = "encoded"
  /\ LET r == drop_high_missing_columns(heap, frame.df_mv, args.col_missing_threshold)
     IN IF r.outcome = "returned"
        THEN /\ pc' = "filtered"
             /\ heap' = r.heap
             /\ frame' = [frame EXCEPT !.df_cols = r.out[1]]
             /\ metadata' = metadata @@ [dropped_columns |-> r.dropped]
             /\ UNCHANGED <<input, op, args, out, dropped_cols, outcome>>
        ELSE Raise(r)

CleanSplitRows_unfiltered ==
  /\ pc = "filtered"
  /\ LET r == split_by_row_missingness(heap, frame.df_mv, args.row_missing_threshold)
     IN IF r.outcome = "returned"
        THEN /\ pc' = "split"
             /\ heap' = r.heap
             /\ frame' = [frame EXCEPT !.main_df = r.out[1], !.high_missing_df = r.out[2]]
             /\ metadata' = metadata @@
                  [high_missing_rows_count |-> shape(r.heap[r.out[2]])[1]]
             /\ UNCHANGED <<input, op, args, out, dropped_cols, outcome>>
        ELSE Raise(r)

CleanSplitRows ==
  /\ pc = "filtered"
  /\ LET r == split_by_row_missingness(heap, frame.df_cols, args.row_missing_threshold)
     IN IF r.outcome = "returned"
        THEN /\ pc' = "split"
             /\ heap' = r.heap
             /\ frame' = [frame EXCEPT !.main_df = r.out[1], !.high_missing_df = r.out[2]]
             /\ metadata' = metadata @@
                  [high_missing_rows_count |-> shape(r.heap[r.out[2]])[1]]
             /\ UNCHANGED <<input, op, args, out, dropped_cols, outcome>>
        ELSE Raise(r)

CleanConvert ==
  /\ pc = "split"
  /\ \E r \in convert_categorical(heap, frame.main_df, args.binary_cols, args.drop_cols) :
       IF r.outcome = "returned"
       THEN /\ pc' = "done"
            /\ heap' = r.heap
            /\ out' = r.out
            /\ outcome' = "returned"
            /\ metadata' = metadata @@ [cleaned_shape |-> shape(r.heap[r.out[1]])]
            /\ UNCHANGED <<input, op, args, dropped_cols, frame>>
       ELSE Raise(r)

\* the call is over: the caller keeps its table and lets the results go
Return ==
  /\ pc = "done"
  /\ pc' = "idle"
  /\ op' = "none"
  /\ args' = NoArgs
  /\ heap' = <<heap[1]>>
  /\ out' = <<>>
  /\ dropped_cols' = <<>>
  /\ outcome' = "none"
  /\ frame' = NoFrame
  /\ metadata' = NoMetadata
  /\ UNCHANGED input

Next ==
  \/ Call_encode_missing_values
  \/ Call_encode_missing_values_again
  \/ Call_drop_high_missing_columns
  \/ Call_split_by_row_missingness
  \/ Call_convert_categorical
  \/ CleanEncode
  \/ CleanDropColumns
  \/ CleanSplitRows
  \/ CleanConvert
  \/ Return

Spec == Init /\ [][Next]_vars

(***************************************************************************)
(* The two compositions the pipeline is compared with                      *)
(***************************************************************************)
Returned(name) == pc = "done" /\ op = name /\ outcome = "returned"

\* the four functions called one after the other, each on a heap of its own
clean_composed(t, a) ==
  LET e == encode_missing_values(<<t>>, 1, a.missing_value_map)
      df_mv == e.heap[e.out[1]]
      c == drop_high_missing_columns(<<df_mv>>, 1, a.col_missing_threshold)
      df_cols == c.heap[c.out[1]]
      s == split_by_row_missingness(<<df_cols>>, 1, a.row_missing_threshold)
      main_df == s.heap[s.out[1]]
      high_missing_df == s.heap[s.out[2]]
  IN {IF k.outcome = "returned"
      THEN [outcome |-> k.outcome,
            table |-> k.heap[k.out[1]],
            metadata |-> [original_shape |-> shape(t),
                          dropped_columns |-> c.dropped,
                          high_missing_rows_count |-> Len(high_missing_df.rows),
                          cleaned_shape |-> shape(k.heap[k.out[1]])]]
      ELSE [outcome |-> k.outcome, table |-> <<>>, metadata |-> <<>>] :
        k \in convert_categorical(<<main_df>>, 1, a.binary_cols, a.drop_cols)}

CleanSummary ==
  IF outcome = "returned"
  THEN [outcome |-> outcome, table |-> heap[out[1]], metadata |-> metadata]
  ELSE [outcome |-> outcome, table |-> <<>>, metadata |-> <<>>]

ConvertSummaries(t, b, d) ==
  {[outcome |-> k.outcome,
    table |-> IF k.outcome = "returned" THEN k.heap[k.out[1]] ELSE <<>>] :
     k \in convert_categorical(<<t>>, 1, b, d)}

\* a configuration without the names that match no column of t
MatchingNames(t, names) ==
  IF IsNone(names) THEN None
  ELSE Some(SelectSeq(names[1], LAMBDA c : c \in Cols(t)))

MatchingMap(t, m) ==
  IF IsNone(m) THEN None
  ELSE Some([k \in DOMAIN m[1] \cap (Cols(t) \cup {"ALL"}) |-> m[1][k]])

ExactlyAt(f, th) == f.count > 0 /\ f.sum * th[2] = th[1] * f.count

Above(f, th) == f.count > 0 /\ f.sum * th[2] > th[1] * f.count

(***************************************************************************)
(* C1: split_by_row_missingness(table, threshold) partitions the rows of   *)
(* any table: every input row is in exactly one of kept and excluded, the  *)
(* two row counts add up to the input's, and kept is in the input's order. *)
(* Violated by a table with rows and no column.                            *)
(***************************************************************************)
C1_PartitionConservation ==
  Returned("split_by_row_missingness") =>
    LET kept == heap[out[1]]
        excluded == heap[out[2]]
    IN /\ Len(kept.rows) + Len(excluded.rows) = Len(input.rows)
       /\ \A i \in DOMAIN input.rows :
            (input.rows[i] \in SeqSet(kept.rows)) #
            (input.rows[i] \in SeqSet(excluded.rows))
       /\ kept.rows = SelectSeq(input.rows, LAMBDA r : r \in SeqSet(kept.rows))

(***************************************************************************)
(* C2: a column whose missing fraction equals the threshold is kept by     *)
(* drop_high_missing_columns; a column is dropped iff its fraction is      *)
(* strictly greater, and dropped_cols lists the dropped columns in the     *)
(* table's column order; a row whose missing fraction equals the threshold *)
(* is in the kept output of split_by_row_missingness, not in the excluded. *)
(***************************************************************************)
DropBoundary(src, th, res, dropped) ==
  /\ \A c \in Cols(src) :
       /\ ExactlyAt(isna_mean(src, c), th) => c \in Cols(res) /\ c \notin SeqSet(dropped)
       /\ c \in SeqSet(dropped) <=> Above(isna_mean(src, c), th)
       /\ c \in Cols(res) <=> c \notin SeqSet(dropped)
  /\ dropped = SelectSeq(src.columns, LAMBDA c : c \in SeqSet(dropped))
  /\ res.columns = SelectSeq(src.columns, LAMBDA c : c \notin SeqSet(dropped))

SplitBoundary(src, th, kept, excluded) ==
  \A i \in DOMAIN src.rows :
    ExactlyAt(isna_mean_axis1(src, src.rows[i]), th) =>
      /\ src.rows[i] \in SeqSet(kept.rows)
      /\ src.rows[i] \notin SeqSet(excluded.rows)

C2_ThresholdBoundary ==
  /\ Returned("drop_high_missing_columns") =>
       DropBoundary(input, args.col_missing_threshold, heap[out[1]], dropped_cols)
  /\ Returned("split_by_row_missingness") =>
       SplitBoundary(input, args.row_missing_threshold, heap[out[1]], heap[out[2]])
  /\ (op = "clean_demographic_data" /\ frame.df_cols # 0) =>
       DropBoundary(heap[frame.df_mv], args.col_missing_threshold,
                    heap[frame.df_cols], metadata.dropped_columns)
  /\ (op = "clean_demographic_data" /\ frame.main_df # 0) =>
       SplitBoundary(heap[frame.df_cols], args.row_missing_threshold,
                     heap[frame.main_df], heap[frame.high_missing_df])

C2_Witness ==
  /\ op = "clean_demographic_data"
  /\ pc = "split"
  /\ \E c \in Cols(heap[frame.df_mv]) :
       /\ isna_mean(heap[frame.df_mv], c).sum = 1
       /\ ExactlyAt(isna_mean(heap[frame.df_mv], c), args.col_missing_threshold)
       /\ c \in Cols(heap[frame.df_cols])
  /\ \E i \in DOMAIN heap[frame.df_cols].rows :
       LET row == heap[frame.df_cols].rows[i]
       IN /\ isna_mean_axis1(heap[frame.df_cols], row).sum = 1
          /\ ExactlyAt(isna_mean_axis1(heap[frame.df_cols], row), args.row_missing_threshold)
          /\ row \in SeqSet(heap[frame.main_df].rows)

(***************************************************************************)
(* C3: clean_demographic_data returns what the four functions return when  *)
(* called one after the other (encode, column filter, row split, then      *)
(* convert_categorical on the kept rows), with original_shape the input's  *)
(* shape, dropped_columns the list of the column filter,                   *)
(* high_missing_rows_count the excluded rows of the split and              *)
(* cleaned_shape the shape of the returned table.                          *)
(***************************************************************************)
C3_PipelineIsComposition ==
  (pc = "done" /\ op = "clean_demographic_data") =>
    CleanSummary \in clean_composed(input, args)

C3_Witness ==
  /\ Returned("clean_demographic_data")
  /\ Len(metadata.dropped_columns) > 0
  /\ metadata.high_missing_rows_count > 0
  /\ metadata.cleaned_shape[1] > 0
  /\ metadata.cleaned_shape[2] > 0
  /\ metadata.cleaned_shape = shape(heap[out[1]])
  /\ metadata.original_shape = shape(input)

(***************************************************************************)
(* C4: in the result of encode_missing_values a cell of column c is        *)
(* missing iff it was missing in the input, or its value is in the         *)
(* wildcard set, or in the set the map gives for c; the set of c adds to   *)
(* the wildcard set, every other cell keeps its value, and without a map   *)
(* the wildcard set is {-1, -2, -3, -9}.                                   *)
(***************************************************************************)
EncodePost(src, m, res) ==
  LET wildcard == IF IsNone(m) THEN {-1, -2, -3, -9}
                  ELSE IF "ALL" \in DOMAIN m[1] THEN m[1]["ALL"] ELSE {}
      specific(c) == IF ~IsNone(m) /\ c # "ALL" /\ c \in DOMAIN m[1]
                     THEN m[1][c] ELSE {}
  IN /\ res.columns = src.columns
     /\ Len(res.rows) = Len(src.rows)
     /\ \A i \in DOMAIN src.rows : \A c \in Cols(src) :
          LET v == src.rows[i].cells[c]
              w == res.rows[i].cells[c]
          IN /\ w = NaN <=> (v = NaN \/ v \in wildcard \/ v \in specific(c))
             /\ w # NaN => w = v

C4_EncodeCells ==
  /\ (pc = "done" /\ op = "encode_missing_values") =>
       /\ outcome = "returned"
       /\ EncodePost(input, args.missing_value_map, heap[out[1]])
  /\ (op = "clean_demographic_data" /\ frame.df_mv # 0) =>
       EncodePost(input, args.missing_value_map, heap[frame.df_mv])

C4_Witness ==
  /\ Returned("encode_missing_values")
  /\ ~IsNone(args.missing_value_map)
  /\ {"ALL", "A"} \subseteq DOMAIN args.missing_value_map[1]
  /\ args.missing_value_map[1]["ALL"] # args.missing_value_map[1]["A"]
  /\ "A" \in Cols(input)
  /\ \E i, j \in DOMAIN input.rows :
       /\ input.rows[i].cells["A"] \in args.missing_value_map[1]["ALL"]
       /\ input.rows[j].cells["A"] \in args.missing_value_map[1]["A"]
       /\ heap[out[1]].rows[i].cells["A"] = NaN
       /\ heap[out[1]].rows[j].cells["A"] = NaN

(***************************************************************************)
(* C5: encoding the result of encode_missing_values once more with the     *)
(* same map gives the same table.                                          *)
(***************************************************************************)
C5_EncodeIdempotent ==
  Returned("encode_missing_values_again") => heap[out[2]] = heap[out[1]]

C5_Witness ==
  /\ Returned("encode_missing_values_again")
  /\ ~IsNone(args.missing_value_map)
  /\ {"ALL", "A"} \subseteq DOMAIN args.missing_value_map[1]
  /\ "A" \in Cols(input)
  /\ \E i, j \in DOMAIN input.rows :
       /\ input.rows[i].cells["A"] \in args.missing_value_map[1]["ALL"]
       /\ input.rows[j].cells["A"] \in args.missing_value_map[1]["A"]
       /\ input.rows[j].cells["A"] \notin args.missing_value_map[1]["ALL"]
  /\ heap[out[1]] # input

(***************************************************************************)
(* C6: for each column named in binary_cols that is in the table,          *)
(* convert_categorical raises no error and maps every 1 to 0, every 2 to 1 *)
(* and every other value, a missing one included, to the missing marker.   *)
(* Violated when binary_cols names the column twice.                       *)
(***************************************************************************)
C6_BinaryRemap ==
  (pc = "done" /\ op = "convert_categorical" /\ Truthy(args.binary_cols)) =>
    LET removed == IF Truthy(args.drop_cols) THEN SeqSet(args.drop_cols[1]) ELSE {}
    IN \A c \in (SeqSet(args.binary_cols[1]) \cap Cols(input)) \ removed :
         /\ outcome = "returned"
         /\ c \in Cols(heap[out[1]])
         /\ \A i \in DOMAIN input.rows :
              LET v == input.rows[i].cells[c]
                  w == heap[out[1]].rows[i].cells[c]
              IN /\ v = 1 => w = 0
                 /\ v = 2 => w = 1
                 /\ v \notin {1, 2} => w = NaN

(***************************************************************************)
(* C7: a threshold outside [0,1] given to drop_high_missing_columns,       *)
(* split_by_row_missingness or clean_demographic_data ends the call with   *)
(* a validation error.  Violated: no function checks its threshold.        *)
(***************************************************************************)
ThresholdOutOfRange ==
  \/ op = "drop_high_missing_columns" /\ ~InUnitInterval(args.col_missing_threshold)
  \/ op = "split_by_row_missingness" /\ ~InUnitInterval(args.row_missing_threshold)
  \/ /\ op = "clean_demographic_data"
     /\ \/ ~InUnitInterval(args.col_missing_threshold)
        \/ ~InUnitInterval(args.row_missing_threshold)

C7_ValidationError ==
  (pc = "done" /\ ThresholdOutOfRange) => outcome = "ValidationError"

(***************************************************************************)
(* C7 as amended: a threshold outside [0,1] is not validated.  The calls   *)
(* never end with a validation error and compare with the threshold as     *)
(* with any other: below 0, every column of a table with rows is dropped   *)
(* and every row of a table with columns is excluded; above 1, no column   *)
(* is dropped and every row of a table with columns is kept.               *)
(***************************************************************************)
Negative(th) == th[1] < 0

AboveOne(th) == th[1] > th[2]

UnvalidatedDrop(src, th, res, dropped) ==
  /\ (Negative(th) /\ Len(src.rows) > 0) => dropped = src.columns /\ res.columns = <<>>
  /\ AboveOne(th) => dropped = <<>> /\ res = src

UnvalidatedSplit(src, th, kept, excluded) ==
  Len(src.columns) > 0 =>
    /\ Negative(th) => kept.rows = <<>> /\ excluded = src
    /\ AboveOne(th) => kept = src /\ excluded.rows = <<>>

C7_ThresholdNotValidated ==
  /\ (pc = "done" /\ ThresholdOutOfRange) => outcome \in {"returned", "ValueError"}
  /\ (Returned("drop_high_missing_columns") /\ ThresholdOutOfRange) =>
       UnvalidatedDrop(input, args.col_missing_threshold, heap[out[1]], dropped_cols)
  /\ (Returned("split_by_row_missingness") /\ ThresholdOutOfRange) =>
       UnvalidatedSplit(input, args.row_missing_threshold, heap[out[1]], heap[out[2]])
  /\ (pc = "done" /\ op = "clean_demographic_data" /\ ThresholdOutOfRange) =>
       /\ frame.main_df # 0
       /\ UnvalidatedDrop(heap[frame.df_mv], args.col_missing_threshold,
                          heap[frame.df_cols], metadata.dropped_columns)
       /\ UnvalidatedSplit(heap[frame.df_cols], args.row_missing_threshold,
                           heap[frame.main_df], heap[frame.high_missing_df])

C7_Witness ==
  /\ Returned("drop_high_missing_columns")
  /\ Negative(args.col_missing_threshold)
  /\ Len(input.rows) > 0
  /\ Len(input.columns) > 1
  /\ \E c \in Cols(input) : isna_mean(input, c).sum = 0
  /\ dropped_cols = input.columns

(***************************************************************************)
(* C8: a key of the missing-value map, a name of drop_cols or a name of    *)
(* binary_cols that matches no column of the table raises no error and is  *)
(* ignored: encode_missing_values, convert_categorical and                 *)
(* clean_demographic_data end as they do with those names removed.         *)
(***************************************************************************)
C8_UnmatchedNamesIgnored ==
  /\ (pc = "done" /\ op = "encode_missing_values") =>
       LET r == encode_missing_values(<<input>>, 1,
                                      MatchingMap(input, args.missing_value_map))
       IN /\ outcome = "returned"
          /\ r.outcome = "returned"
          /\ heap[out[1]] = r.heap[r.out[1]]
  /\ (pc = "done" /\ op = "convert_categorical") =>
       /\ outcome # "KeyError"
       /\ [outcome |-> outcome,
           table |-> IF outcome = "returned" THEN heap[out[1]] ELSE <<>>]
            \in ConvertSummaries(input, MatchingNames(input, args.binary_cols),
                                 MatchingNames(input, args.drop_cols))
  /\ (pc = "done" /\ op = "clean_demographic_data") =>
       /\ outcome # "KeyError"
       /\ CleanSummary \in
            clean_composed(input,
                           Args(MatchingMap(input, args.missing_value_map),
                                args.col_missing_threshold,
                                args.row_missing_threshold,
                                MatchingNames(input, args.binary_cols),
                                MatchingNames(input, args.drop_cols)))

C8_Witness ==
  /\ Returned("clean_demographic_data")
  /\ ~IsNone(args.missing_value_map)
  /\ \E k \in DOMAIN args.missing_value_map[1] : k \notin Cols(input) \cup {"ALL"}
  /\ Truthy(args.binary_cols)
  /\ \E c \in SeqSet(args.binary_cols[1]) : c \notin Cols(input)
  /\ Truthy(args.drop_cols)
  /\ \E c \in SeqSet(args.drop_cols[1]) : c \notin Cols(input)
  /\ Len(input.columns) > 0
  /\ metadata.cleaned_shape[1] > 0

(***************************************************************************)
(* C9: every function leaves the table it is given as it was (same         *)
(* columns, same rows in the same order, same values), and what it returns *)
(* is a newly allocated table, never the caller's.                         *)
(***************************************************************************)
C9_InputUnchanged ==
  /\ heap[1] = input
  /\ \A k \in DOMAIN out : out[k] # 1
  /\ frame.df_mv # 1 /\ frame.df_cols # 1
  /\ frame.main_df # 1 /\ frame.high_missing_df # 1

C9_Witness ==
  /\ Returned("clean_demographic_data")
  /\ heap[out[1]] # input
  /\ heap[frame.df_mv] # input
  /\ Len(input.rows) > 0
  /\ heap[1] = input

(***************************************************************************)
(* C10: when at least one column survives the column filter, the rows of   *)
(* cleaned_shape plus high_missing_rows_count make the rows of             *)
(* original_shape.                                                         *)
(***************************************************************************)
C10_RowsConserved ==
  (Returned("clean_demographic_data") /\ Len(heap[frame.df_cols].columns) >= 1) =>
    metadata.cleaned_shape[1] + metadata.high_missing_rows_count
      = metadata.original_shape[1]

C10_Witness ==
  /\ Returned("clean_demographic_data")
  /\ Len(heap[frame.df_cols].columns) >= 1
  /\ metadata.high_missing_rows_count > 0
  /\ metadata.cleaned_shape[1] > 0
  /\ \E i \in DOMAIN heap[frame.df_cols].rows :
       ExactlyAt(isna_mean_axis1(heap[frame.df_cols], heap[frame.df_cols].rows[i]),
                 args.row_missing_threshold)

====
